---- MODULE Spec2Model ----
(***************************************************************************)
(* Model of the real-time connection registry of the portfolio backend:    *)
(* backend/src/services/SocketService.ts.                                  *)
(*                                                                         *)
(* Strings that the code inspects (room names, user ids) are sequences of  *)
(* one-character strings, so that startsWith, split and template literals  *)
(* are computed as the code computes them.  Values that are only compared  *)
(* for equality (roles, tokens, event names) are TLA+ strings.             *)
(***************************************************************************)
EXTENDS Integers, Sequences, FiniteSets, TLC

\* ------------------------------------------------------------------ bounds
MaxConns == 2      \* connection handles accepted during a run
MaxEvents == 2     \* events (client events, notifications) handled during a run
MaxPending == 1    \* verifyToken calls one connection may have in flight
MaxTicks == 1      \* runs of broadcastRealTimeData that may be suspended at once
MaxRequests == 2   \* HTTP requests in flight during a run

Conns == 1..MaxConns

\* ----------------------------------------------------------------- strings
S_admin_ == <<"a","d","m","i","n","_">>
S_user == <<"u","s","e","r",":">>
S_public_ == <<"p","u","b","l","i","c","_">>
S_admins == <<"a","d","m","i","n","s">>
S_admin_dashboard == S_admin_ \o <<"d","a","s","h","b","o","a","r","d">>
S_public_chat == S_public_ \o <<"c","h","a","t">>
S_lobby == <<"l","o","b","b","y">>

\* JavaScript undefined: a user id that equals no string, a role that is no role
Undefined == <<"undefined">>
RoleUndefined == "undefined"

\* String.prototype.startsWith
StartsWith(s, p) == Len(s) >= Len(p) /\ SubSeq(s, 1, Len(p)) = p

\* String.prototype.split(sep) for a one-character separator: the pieces
\* between the separators, in order
RECURSIVE SplitFrom(_, _, _, _)
SplitFrom(s, sep, i, cur) ==
  IF i > Len(s) THEN <<cur>>
  ELSE IF s[i] = sep THEN <<cur>> \o SplitFrom(s, sep, i + 1, <<>>)
  ELSE SplitFrom(s, sep, i + 1, Append(cur, s[i]))

Split(s, sep) == SplitFrom(s, sep, 1, <<>>)

\* the template literal `user:${userId}`
UserRoom(userId) == S_user \o userId

\* ------------------------------------------------------------------- users
U1 == <<"u","1">>
A1 == <<"a","1">>

\* the user accounts of the run: id and role (role is 'admin' | 'visitor')
Users == { [id |-> U1, role |-> "visitor"],
           [id |-> A1, role |-> "admin"] }

UserIds == { u.id : u \in Users }

\* tokens a client may present; "bad" is a garbage or expired token
Tokens == { "tok_u1", "tok_a1", "bad" }

TokenUser(t) ==
  IF t = "tok_u1" THEN [id |-> U1, role |-> "visitor"]
  ELSE [id |-> A1, role |-> "admin"]

\* AuthService.verifyToken: what the awaited call may produce for a token:
\* the user, null for a token it rejects, or an exception
VerifyToken(t) ==
  IF t = "bad" THEN { [kind |-> "null"], [kind |-> "throw"] }
  ELSE { [kind |-> "user", user |-> TokenUser(t)], [kind |-> "throw"] }

\* room names a client may name in join_room / leave_room
RoomNames == { S_admins, S_admin_dashboard, S_public_chat, S_lobby }
                \cup { UserRoom(id) : id \in UserIds }


\* every room a connection can become a member of
AllRooms == RoomNames \cup { S_admins } \cup { UserRoom(id) : id \in UserIds }

\* payloads of the authenticate event: { token } or no payload at all
NoPayload == "no_payload"
AuthPayloads == Tokens \cup { NoPayload }

\* what the handshake middleware (authenticationMiddleware) leaves on the
\* socket: the verified user of the handshake token, or nothing when there is
\* no token, the verifier returns null or the verifier throws
NoUser == [id |-> Undefined, role |-> RoleUndefined]
Handshakes == Users \cup { NoUser }

\* ------------------------------------------------------------------- state
VARIABLES
  status,          \* per handle: "new" (not yet accepted), "open", "closed"
  sock,            \* per handle: socket.userId / userRole / isAuthenticated
  connectedUsers,  \* Map<socket.id, SocketUser>
  userSessions,    \* Map<userId, Set<socket.id>>
  rooms,           \* the adapter's rooms: room name -> set of socket ids
  pendingAuth,     \* per handle: tokens whose verifyToken call is awaited
  connPc,          \* per handle: where handleConnection is suspended
  discPc,          \* per handle: where handleDisconnection is suspended
  now,             \* logical time: events handled so far
  lastEmit,        \* the most recent outbound event
  failedAuth,      \* history: handles that were answered authentication_error
  tickPending,     \* runs of broadcastRealTimeData awaiting getRealTimeMetrics
  broadcasts,      \* the emits of the step, when it was a step of broadcastRealTimeData
                   \* or of the notification service
  running,         \* FALSE once PortfolioServer.shutdown() has completed
  http,            \* per HTTP request: where it is in the middleware chain
  notificationIo,  \* NotificationService.io: "null" or "io"
  lastTrack,       \* the trackEvent call of the step, with what became of it
  clock,           \* hours elapsed, as the Redis server counts key expiry
  blockedKey,      \* the Redis key blocked_ip:{ip} of one client IP
  attemptKey,      \* the Redis key suspicious_attempts:{ip} of that IP
  ipReq            \* per request of that IP: where blockSuspiciousIPs is

\* the state outside the connection registry's event handlers
\* the state of the IP blocking middleware
ipVars == << clock, blockedKey, attemptKey, ipReq >>

serverVars == << tickPending, running, http, notificationIo, ipVars >>

\* everything but the HTTP requests
registryVars == << status, sock, connectedUsers, userSessions, rooms, pendingAuth,
                  connPc, discPc, now, lastEmit, failedAuth, broadcasts,
                  tickPending, running, notificationIo, lastTrack, ipVars >>

\* everything but the IP blocking middleware
nonIpVars == << status, sock, connectedUsers, userSessions, rooms, pendingAuth,
               connPc, discPc, now, lastEmit, failedAuth, broadcasts,
               tickPending, running, notificationIo, lastTrack, http >>

vars == << status, sock, connectedUsers, userSessions, rooms, pendingAuth,
           connPc, discPc, now, lastEmit, failedAuth, broadcasts, lastTrack,
           serverVars >>

\* ------------------------------------------------------- Map / Set helpers
MapHas(m, k) == k \in DOMAIN m
MapSet(m, k, v) == [ x \in DOMAIN m \cup {k} |-> IF x = k THEN v ELSE m[x] ]
MapDelete(m, k) == [ x \in DOMAIN m \ {k} |-> m[x] ]

\* socket.join(room) / socket.leave(room) on the adapter
SocketJoin(rm, c, room) == [rm EXCEPT ![room] = @ \cup {c}]
SocketLeave(rm, c, room) == [rm EXCEPT ![room] = @ \ {c}]

\* socket.io leaves every room of a socket when its transport closes, before
\* the 'disconnect' event is emitted
LeaveAll(rm, c) == [ r \in DOMAIN rm |-> rm[r] \ {c} ]

\* sockets a broadcast to a room reaches: the members the namespace still holds
RoomTargets(room) == { c \in rooms[room] : status[c] = "open" }

\* socket.emit reaches the client only while the socket is open
SocketTargets(c) == IF status[c] = "open" THEN {c} ELSE {}

Emit(event, c, arg, to, n) ==
  [event |-> event, conn |-> c, arg |-> arg, to |-> to, count |-> n]

NoEmit == Emit("none", 0, <<>>, {}, 0)

\* ------------------------------------------------ AnalyticsService.trackEvent
\* a call of trackEvent for connection c: stored is FALSE when the sink fails
\* (one of its Redis writes rejects)
Track(type, c, stored) == [type |-> type, conn |-> c, stored |-> stored]

\* a call whose event carries userId: socket.userId
TrackUser(type, c, userId, stored) ==
  [type |-> type, conn |-> c, userId |-> userId, stored |-> stored]

NoTrack == Track("none", 0, TRUE)

\* how the promise of trackEvent settles: the body is one try/catch that logs,
\* so it resolves whether or not the event was stored
trackEvent_Rethrows(stored) == IF stored THEN "resolved" ELSE "rejected"

trackEvent(stored) == "resolved"

\* ------------------------------------------------------------ canJoinRoom
canJoinRoom(s, room) ==
  IF StartsWith(room, S_admin_) THEN s.userRole = "admin"
  ELSE IF StartsWith(room, S_user)
       THEN LET userId == Split(room, ":")[2]
            IN  s.userId = userId \/ s.userRole = "admin"
  ELSE IF StartsWith(room, S_public_) THEN TRUE
  ELSE FALSE

\* ------------------------------------------------------- handleConnection
\* the SocketUser record built from the socket at connection time
NewSocketUser(s, t) ==
  [userId |-> s.userId, role |-> s.userRole,
   isAuthenticated |-> s.isAuthenticated, lastActivity |-> t]

\* "Track user sessions"
ConnSessions(us, c, socketUser) ==
  IF socketUser.userId # Undefined
  THEN LET withKey == IF MapHas(us, socketUser.userId) THEN us
                      ELSE MapSet(us, socketUser.userId, {})
       IN  [withKey EXCEPT ![socketUser.userId] = @ \cup {c}]
  ELSE us

\* "Join user-specific room" and the admins room
ConnRooms(rm, c, socketUser) ==
  IF socketUser.userId # Undefined
  THEN LET own == SocketJoin(rm, c, UserRoom(socketUser.userId))
       IN  IF socketUser.role = "admin" THEN SocketJoin(own, c, S_admins) ELSE own
  ELSE rm

\* the handshake middleware, then handleConnection up to its first real
\* suspension (the Redis write); getLocationFromIP resolves at once
Connect(c, hs) ==
  /\ status[c] = "new"
  /\ \A d \in Conns : d < c => status[d] # "new"
  /\ LET s == IF hs = NoUser
              THEN [userId |-> Undefined, userRole |-> RoleUndefined,
                    isAuthenticated |-> FALSE]
              ELSE [userId |-> hs.id, userRole |-> hs.role, isAuthenticated |-> TRUE]
         socketUser == NewSocketUser(s, now)
     IN  /\ sock' = [sock EXCEPT ![c] = s]
         /\ connectedUsers' = MapSet(connectedUsers, c, socketUser)
         /\ userSessions' = ConnSessions(userSessions, c, socketUser)
         /\ rooms' = ConnRooms(rooms, c, socketUser)
  /\ status' = [status EXCEPT ![c] = "open"]
  /\ connPc' = [connPc EXCEPT ![c] = "tail"]
  /\ lastEmit' = NoEmit
  /\ UNCHANGED << pendingAuth, discPc, now, failedAuth >>
  /\ broadcasts' = << >> /\ lastTrack' = NoTrack /\ UNCHANGED serverVars

\* the rest of handleConnection: the awaited redis setex settles (ok), then
\* the awaited trackEvent (stored), and the welcome message is sent; a
\* rejected await ends the handler as an unhandled rejection instead
ConnectTail(c, ok, stored) ==
  /\ connPc[c] = "tail"
  /\ connPc' = [connPc EXCEPT ![c] = "done"]
  /\ lastTrack' = IF ok THEN Track("socket_connection", c, stored) ELSE NoTrack
  /\ lastEmit' = IF ok /\ trackEvent(stored) = "resolved"
                 THEN Emit("connection_established", c, <<>>, SocketTargets(c),
                           Cardinality(DOMAIN connectedUsers))
                 ELSE Emit("unhandledRejection", c, <<>>, {}, 0)
  /\ UNCHANGED << status, sock, connectedUsers, userSessions, rooms,
                  pendingAuth, discPc, now, failedAuth >>
  /\ broadcasts' = << >> /\ UNCHANGED serverVars

\* --------------------------------------------------- handleAuthentication
AuthRecord_KeepsFlag(cu, c, user) ==
  IF MapHas(cu, c)
  THEN [cu EXCEPT ![c] = [@ EXCEPT !.userId = user.id, !.role = user.role]]
  ELSE cu

\* "Update stored user data": only when the handle is still in the table
AuthRecord(cu, c, user) ==
  IF MapHas(cu, c)
  THEN [cu EXCEPT ![c] = [@ EXCEPT !.userId = user.id, !.role = user.role,
                                   !.isAuthenticated = TRUE]]
  ELSE cu

\* the socket's fields after verifyToken settled: set only for a user
AuthSock_MarksBeforeCheck(s, res) ==
  IF res.kind = "user"
  THEN [userId |-> res.user.id, userRole |-> res.user.role, isAuthenticated |-> TRUE]
  ELSE [s EXCEPT !.isAuthenticated = TRUE]

AuthSock(s, res) ==
  IF res.kind = "user"
  THEN [userId |-> res.user.id, userRole |-> res.user.role, isAuthenticated |-> TRUE]
  ELSE s

\* "Join appropriate rooms"
AuthRooms_NoAdminJoin(rm, c, user) == SocketJoin(rm, c, UserRoom(user.id))

AuthRooms(rm, c, user) ==
  LET own == SocketJoin(rm, c, UserRoom(user.id))
  IN  IF user.role = "admin" THEN SocketJoin(own, c, S_admins) ELSE own

\* userSessions after a successful authenticate event: the handler does not
\* touch the session index
AuthSessions(us, c, user) == us

\* the authenticate event arrives: destructuring a missing payload throws
\* inside the try and is answered at once; otherwise verifyToken is awaited
Authenticate(c, data) ==
  /\ status[c] = "open"
  /\ now < MaxEvents
  /\ now' = now + 1
  /\ IF data = NoPayload
     THEN /\ lastEmit' = Emit("authentication_error", c, <<>>, SocketTargets(c), 0)
          /\ failedAuth' = failedAuth \cup {c}
          /\ UNCHANGED pendingAuth
     ELSE /\ data \notin pendingAuth[c]
          /\ Cardinality(pendingAuth[c]) < MaxPending
          /\ pendingAuth' = [pendingAuth EXCEPT ![c] = @ \cup {data}]
          /\ lastEmit' = NoEmit
          /\ UNCHANGED failedAuth
  /\ UNCHANGED << status, sock, connectedUsers, userSessions, rooms, connPc, discPc >>
  /\ broadcasts' = << >> /\ lastTrack' = NoTrack /\ UNCHANGED serverVars

\* verifyToken settles and handleAuthentication runs to its end.  The socket
\* may have closed meanwhile: socket.join on a closed socket still adds the
\* handle to the room in socket.io before 4.5.2 and does nothing from 4.5.2
\* on; src/ pins no version, so lateJoin ranges over both outcomes
AuthenticateDone(c, t, res, lateJoin) ==
  /\ t \in pendingAuth[c]
  /\ res \in VerifyToken(t)
  /\ (status[c] = "open" \/ res.kind # "user") => lateJoin
  /\ pendingAuth' = [pendingAuth EXCEPT ![c] = @ \ {t}]
  /\ sock' = [sock EXCEPT ![c] = AuthSock(sock[c], res)]
  /\ IF res.kind = "user"
     THEN /\ connectedUsers' = AuthRecord(connectedUsers, c, res.user)
          /\ userSessions' = AuthSessions(userSessions, c, res.user)
          /\ rooms' = IF status[c] = "open" \/ lateJoin
                      THEN AuthRooms(rooms, c, res.user) ELSE rooms
          /\ lastEmit' = Emit("authentication_success", c, res.user.id,
                              SocketTargets(c), 0)
          /\ UNCHANGED failedAuth
     ELSE /\ lastEmit' = Emit("authentication_error", c, <<>>, SocketTargets(c), 0)
          /\ failedAuth' = failedAuth \cup {c}
          /\ UNCHANGED << connectedUsers, userSessions, rooms >>
  /\ UNCHANGED << status, connPc, discPc, now >>
  /\ broadcasts' = << >> /\ lastTrack' = NoTrack /\ UNCHANGED serverVars

\* ------------------------------------------- handleJoinRoom / handleLeaveRoom
\* payloads of join_room / leave_room that carry no room name: no payload at
\* all, a payload without the room field, a room that is not a string
MissingPayload == <<"no_payload">>
RoomNotString == <<"number">>
BadRoomPayloads == { MissingPayload, Undefined, RoomNotString }

\* `const { room } = data` throws a TypeError for a missing payload, and
\* room.startsWith throws one for a room that is undefined or not a string;
\* neither handler has a try/catch
JoinRoomThrows(data) == data \in BadRoomPayloads
LeaveRoomThrows(data) == data = MissingPayload

\* rooms after a join_room request
JoinRoomRooms(rm, s, c, room) ==
  IF canJoinRoom(s, room) THEN SocketJoin(rm, c, room) ELSE rm

JoinRoom(c, room) ==
  /\ status[c] = "open"
  /\ now < MaxEvents
  /\ now' = now + 1
  /\ rooms' = IF JoinRoomThrows(room) THEN rooms
              ELSE JoinRoomRooms(rooms, sock[c], c, room)
  /\ lastEmit' = IF JoinRoomThrows(room)
                 THEN Emit("uncaughtException", c, room, {}, 0)
                 ELSE IF canJoinRoom(sock[c], room)
                 THEN Emit("room_joined", c, room, SocketTargets(c), 0)
                 ELSE Emit("room_join_error", c, room, SocketTargets(c), 0)
  /\ UNCHANGED << status, sock, connectedUsers, userSessions, pendingAuth,
                  connPc, discPc, failedAuth >>
  /\ broadcasts' = << >> /\ lastTrack' = NoTrack /\ UNCHANGED serverVars

LeaveRoom(c, room) ==
  /\ status[c] = "open"
  /\ now < MaxEvents
  /\ now' = now + 1
  /\ rooms' = IF room \in DOMAIN rooms THEN SocketLeave(rooms, c, room) ELSE rooms
  /\ lastEmit' = IF LeaveRoomThrows(room)
                 THEN Emit("uncaughtException", c, room, {}, 0)
                 ELSE Emit("room_left", c, room, SocketTargets(c), 0)
  /\ UNCHANGED << status, sock, connectedUsers, userSessions, pendingAuth,
                  connPc, discPc, failedAuth >>
  /\ broadcasts' = << >> /\ lastTrack' = NoTrack /\ UNCHANGED serverVars

\* ------------------------------------------- handleAdminDashboardSubscribe
\* rooms after admin_dashboard_subscribe: the join follows the role check
SubscribeRooms_JoinBeforeCheck(rm, s, c) == SocketJoin(rm, c, S_admin_dashboard)

SubscribeRooms(rm, s, c) ==
  IF s.userRole # "admin" THEN rm ELSE SocketJoin(rm, c, S_admin_dashboard)

\* getDashboardData touches no I/O, so the handler runs without interleaving
AdminDashboardSubscribe(c) ==
  /\ status[c] = "open"
  /\ now < MaxEvents
  /\ now' = now + 1
  /\ rooms' = SubscribeRooms(rooms, sock[c], c)
  /\ lastEmit' = IF sock[c].userRole # "admin"
                 THEN Emit("subscription_error", c, <<>>, SocketTargets(c), 0)
                 ELSE Emit("dashboard_data", c, <<>>, SocketTargets(c),
                           Cardinality(DOMAIN connectedUsers))
  /\ UNCHANGED << status, sock, connectedUsers, userSessions, pendingAuth,
                  connPc, discPc, failedAuth >>
  /\ broadcasts' = << >> /\ lastTrack' = NoTrack /\ UNCHANGED serverVars

\* ------------------------------------------------------- handleProjectView
\* payloads of project_view: { projectId, slug } or no payload at all
ProjectViewPayloads == { <<"p","1">>, MissingPayload }

\* destructuring a missing payload rejects the promise of the async handler,
\* which nobody awaits; otherwise trackEvent (which cannot fail) settles and
\* the view is broadcast to admin_dashboard
ProjectView(c, data, stored) ==
  /\ status[c] = "open"
  /\ now < MaxEvents
  /\ now' = now + 1
  /\ lastTrack' = IF data = MissingPayload THEN NoTrack
                  ELSE TrackUser("project_view", c, sock[c].userId, stored)
  /\ lastEmit' = IF data = MissingPayload \/ trackEvent(stored) # "resolved"
                 THEN Emit("unhandledRejection", c, data, {}, 0)
                 ELSE Emit("project_view_update", c, data,
                           RoomTargets(S_admin_dashboard), 0)
  /\ broadcasts' = << >>
  /\ UNCHANGED << status, sock, connectedUsers, userSessions, rooms, pendingAuth,
                  connPc, discPc, failedAuth, serverVars >>

\* ------------------------------------------------------ handleUserActivity
\* the record after user_activity: only lastActivity is written
ActivityRecord_MarksAuthenticated(cu, c, t) ==
  IF MapHas(cu, c)
  THEN [cu EXCEPT ![c] = [@ EXCEPT !.lastActivity = t, !.isAuthenticated = TRUE]]
  ELSE cu

ActivityRecord(cu, c, t) ==
  IF MapHas(cu, c) THEN [cu EXCEPT ![c].lastActivity = t] ELSE cu

\* trackEvent is called without await: were its promise to reject, nobody
\* would handle the rejection
UserActivity(c, stored) ==
  /\ status[c] = "open"
  /\ now < MaxEvents
  /\ now' = now + 1
  /\ connectedUsers' = ActivityRecord(connectedUsers, c, now')
  /\ lastTrack' = TrackUser("user_activity", c, sock[c].userId, stored)
  /\ lastEmit' = IF trackEvent(stored) = "resolved" THEN NoEmit
                 ELSE Emit("unhandledRejection", c, <<>>, {}, 0)
  /\ UNCHANGED << status, sock, userSessions, rooms, pendingAuth, connPc, discPc, failedAuth >>
  /\ broadcasts' = << >> /\ UNCHANGED serverVars

\* ----------------------------------------------------- handleDisconnection
\* "Remove from user sessions", keyed by the record's current userId
DiscSessions(us, c, socketUser) ==
  IF socketUser.userId # Undefined /\ MapHas(us, socketUser.userId)
  THEN LET userSockets == us[socketUser.userId] \ {c}
       IN  IF userSockets = {} THEN MapDelete(us, socketUser.userId)
           ELSE [us EXCEPT ![socketUser.userId] = userSockets]
  ELSE us

\* the transport closes: socket.io empties the socket's rooms and emits
\* 'disconnect'; handleDisconnection runs up to the awaited trackEvent
Disconnect(c) ==
  /\ status[c] = "open"
  /\ status' = [status EXCEPT ![c] = "closed"]
  /\ rooms' = LeaveAll(rooms, c)
  /\ IF MapHas(connectedUsers, c)
     THEN /\ userSessions' = DiscSessions(userSessions, c, connectedUsers[c])
          /\ discPc' = [discPc EXCEPT ![c] = "track"]
     ELSE /\ UNCHANGED userSessions
          /\ discPc' = [discPc EXCEPT ![c] = "done"]
  /\ lastEmit' = NoEmit
  /\ UNCHANGED << sock, connectedUsers, pendingAuth, connPc, now, failedAuth >>
  /\ broadcasts' = << >> /\ lastTrack' = NoTrack /\ UNCHANGED serverVars

\* connectedUsers after the tail of handleDisconnection: the record is deleted
\* before the Redis delete is awaited, so whether that delete succeeds (ok)
\* makes no difference
DiscRecord_AfterRedisDel(cu, c, ok) == IF ok THEN MapDelete(cu, c) ELSE cu

DiscRecord(cu, c, ok) == MapDelete(cu, c)

\* the awaited trackEvent settles (stored): connectedUsers.delete(socket.id);
\* then the awaited redis del resolves, or rejects as an unhandled rejection
\* (ok)
DisconnectTail(c, ok, stored) ==
  /\ discPc[c] = "track"
  /\ lastTrack' = Track("socket_disconnection", c, stored)
  /\ connectedUsers' = IF trackEvent(stored) = "resolved"
                       THEN DiscRecord(connectedUsers, c, ok) ELSE connectedUsers
  /\ discPc' = [discPc EXCEPT ![c] = "done"]
  /\ lastEmit' = IF ok /\ trackEvent(stored) = "resolved" THEN NoEmit
                 ELSE Emit("unhandledRejection", c, <<>>, {}, 0)
  /\ UNCHANGED << status, sock, userSessions, rooms, pendingAuth, connPc, now, failedAuth >>
  /\ broadcasts' = << >> /\ UNCHANGED serverVars

\* handleDisconnection run on a handle whose socket is not live and for which
\* no run of the handler is suspended (a handle never accepted, or one whose
\* disconnect has been handled to its end): the block guarded by
\* `if (socketUser)` is skipped when the table has no record, and the Redis
\* delete is awaited in any case
handleDisconnection(c, ok) ==
  /\ status[c] # "open"
  /\ discPc[c] \in { "idle", "done" }
  /\ lastTrack' = IF MapHas(connectedUsers, c)
                  THEN Track("socket_disconnection", c, TRUE) ELSE NoTrack
  /\ userSessions' = IF MapHas(connectedUsers, c)
                     THEN DiscSessions(userSessions, c, connectedUsers[c])
                     ELSE userSessions
  /\ connectedUsers' = IF MapHas(connectedUsers, c)
                       THEN DiscRecord(connectedUsers, c, ok)
                       ELSE connectedUsers
  /\ lastEmit' = IF ok THEN NoEmit ELSE Emit("unhandledRejection", c, <<>>, {}, 0)
  /\ broadcasts' = << >>
  /\ UNCHANGED << status, sock, rooms, pendingAuth, connPc, discPc, now,
                  failedAuth, serverVars >>

\* -------------------------------------------------- sendNotificationToUser
sendNotificationToUser(userId) ==
  /\ now < MaxEvents
  /\ now' = now + 1
  /\ lastEmit' = Emit("notification", 0, userId, RoomTargets(UserRoom(userId)), 0)
  /\ UNCHANGED << status, sock, connectedUsers, userSessions, rooms,
                  pendingAuth, connPc, discPc, failedAuth >>
  /\ broadcasts' = << >> /\ lastTrack' = NoTrack /\ UNCHANGED serverVars

\* getUserConnections
getUserConnections(userId) ==
  IF MapHas(userSessions, userId) THEN Cardinality(userSessions[userId]) ELSE 0

\* ---------------------------------------------------- broadcastRealTimeData
\* getDashboardData: activeConnections, authenticatedUsers, adminConnections
getDashboardData(cu) ==
  << Cardinality(DOMAIN cu),
     Cardinality({ c \in DOMAIN cu : cu[c].isAuthenticated }),
     Cardinality({ c \in DOMAIN cu : cu[c].role = "admin" }) >>

getPublicUserCount(cu) == Cardinality(DOMAIN cu)

\* sockets that io.emit reaches: every socket of the namespace
AllTargets == { c \in Conns : status[c] = "open" }

\* AnalyticsService.getRealTimeMetrics awaits Redis reads without a catch:
\* the call resolves, rejects, or never settles
MetricsResults == { "ok", "throw", "hang" }

\* the interval timer fires: broadcastRealTimeData runs up to the awaited
\* getRealTimeMetrics (getDashboardData resolves at once).  setInterval does
\* not wait for an earlier run, and nothing of the server's state guards the
\* callback
broadcastRealTimeData ==
  /\ now < MaxEvents
  /\ now' = now + 1
  /\ tickPending < MaxTicks
  /\ tickPending' = tickPending + 1
  /\ broadcasts' = << Emit("dashboard_update", 0, getDashboardData(connectedUsers),
                          RoomTargets(S_admin_dashboard),
                          getDashboardData(connectedUsers)[1]) >>
  /\ lastEmit' = broadcasts'[1]
  /\ lastTrack' = NoTrack
  /\ UNCHANGED << status, sock, connectedUsers, userSessions, rooms, pendingAuth,
                  connPc, discPc, failedAuth, running, http, notificationIo,
                  ipVars >>

\* getRealTimeMetrics settles and the run continues inside its try block: the
\* two remaining broadcasts, or the catch that logs; a call that never settles
\* leaves the run suspended for good
broadcastRealTimeDataDone(res) ==
  /\ tickPending > 0
  /\ tickPending' = tickPending - 1
  /\ broadcasts' = IF res = "ok"
                  THEN << Emit("real_time_analytics", 0, << >>, RoomTargets(S_admins), 0),
                          Emit("active_users_count", 0, << >>, AllTargets,
                               getPublicUserCount(connectedUsers)) >>
                  ELSE << >>
  /\ lastEmit' = IF res = "ok" THEN broadcasts'[2] ELSE NoEmit
  /\ lastTrack' = NoTrack
  /\ UNCHANGED << status, sock, connectedUsers, userSessions, rooms, pendingAuth,
                  connPc, discPc, now, failedAuth, running, http, notificationIo,
                  ipVars >>

\* ------------------------------------------------- PortfolioServer.shutdown
\* database.disconnect(), redis.disconnect() and server.close(): the interval
\* started by SocketService.initialize is not cleared (its handle is not
\* kept) and the socket server is not closed
shutdown ==
  /\ running
  /\ running' = FALSE
  /\ lastEmit' = NoEmit
  /\ lastTrack' = NoTrack
  /\ broadcasts' = << >>
  /\ UNCHANGED << status, sock, connectedUsers, userSessions, rooms, pendingAuth,
                  connPc, discPc, now, failedAuth, tickPending, http,
                  notificationIo, ipVars >>

\* ------------------------------------------------------ NotificationService
\* recipient lists and channel lists of a notification
RecipientLists == { <<U1>>, <<A1>>, <<U1, A1>> }
ChannelLists == { <<"socket">>, <<"email">>, <<"email", "socket">> }

\* sendSocketNotification: nothing without the socket server, else one
\* notification per recipient to room user:{id}
sendSocketNotification(recipients) ==
  IF notificationIo = "null" THEN << >>
  ELSE [ i \in 1..Len(recipients) |->
           Emit("notification", 0, recipients[i],
                RoomTargets(UserRoom(recipients[i])), 0) ]

\* sendNotification once the awaited storeNotification has settled:
\* storeNotification catches its own errors (stored = FALSE), then the
\* channels are served in order.  NotificationService.io is null until
\* setSocketIO is called, and nothing calls it
sendNotification(recipients, channels, stored) ==
  /\ now < MaxEvents
  /\ now' = now + 1
  /\ broadcasts' = IF \E i \in 1..Len(channels) : channels[i] = "socket"
                   THEN sendSocketNotification(recipients) ELSE << >>
  /\ lastEmit' = IF broadcasts' = << >> THEN NoEmit ELSE broadcasts'[Len(broadcasts')]
  /\ lastTrack' = NoTrack
  /\ UNCHANGED << status, sock, connectedUsers, userSessions, rooms, pendingAuth,
                  connPc, discPc, failedAuth, tickPending, running, http,
                  notificationIo, ipVars >>

\* ------------------------------------------- HTTP: authenticate / authorize
Requests == 1..MaxRequests

\* String.prototype.indexOf from position i, 0 when there is no occurrence
RECURSIVE IndexOf(_, _, _)
IndexOf(s, pat, i) ==
  IF i + Len(pat) - 1 > Len(s) THEN 0
  ELSE IF SubSeq(s, i, i + Len(pat) - 1) = pat THEN i
  ELSE IndexOf(s, pat, i + 1)

\* String.prototype.replace(pat, by) for a string pattern: the first
\* occurrence only
Replace(s, pat, by) ==
  LET i == IndexOf(s, pat, 1)
  IN  IF i = 0 THEN s
      ELSE SubSeq(s, 1, i - 1) \o by \o SubSeq(s, i + Len(pat), Len(s))

S_Bearer == <<"B","e","a","r","e","r"," ">>

\* tokens a request may carry: signed for the admin account, for the visitor
\* account, for an account that has been deleted since, and a token
\* jwt.verify rejects
JwtA1 == <<"j","a">>
JwtU1 == <<"j","u">>
JwtGone == <<"j","g">>
JwtBad == <<"x">>
Jwts == { JwtA1, JwtU1, JwtGone, JwtBad }

\* the Authorization header: absent, 'Bearer <token>', the bare token, or
\* 'Bearer ' alone
NoHeader == <<"undefined">>
Headers == { NoHeader, S_Bearer } \cup Jwts \cup { S_Bearer \o t : t \in Jwts }

\* jwt.verify(token, secret): the decoded userId, or JsonWebTokenError
JwtVerify(token) ==
  IF token = JwtA1 THEN [kind |-> "decoded", userId |-> A1]
  ELSE IF token = JwtU1 THEN [kind |-> "decoded", userId |-> U1]
  ELSE IF token = JwtGone THEN [kind |-> "decoded", userId |-> <<"g","1">>]
  ELSE [kind |-> "JsonWebTokenError"]

\* User.findById(userId).select('-password'): the document, null, or a
\* rejected query
FindById(userId) ==
  { [kind |-> "user", user |-> u] : u \in { x \in Users : x.id = userId } }
    \cup (IF userId \in UserIds THEN {} ELSE { [kind |-> "null"] })
    \cup { [kind |-> "reject"] }

FindByIdKinds == { "user", "null", "reject" }

\* an element of a JavaScript array: a string, or a nested array of strings
Str(v) == [t |-> "string", v |-> <<v>>]
Arr(a) == [t |-> "array", v |-> a]

\* Array.prototype.includes(x) for a string x: an element is equal to x only
\* when it is that string; an array is equal to no string
Includes(list, x) ==
  \E i \in 1..Len(list) : list[i].t = "string" /\ list[i].v = <<x>>

\* the rest parameter `roles` of authorize(...roles) as the admin and
\* analytics routers call it: authorize(['admin'])
RouteRoles == << Arr(<<"admin">>) >>

\* the middleware authorize(...roles) returns, applied to req.user: the status
\* of the ApiError it throws, or 0 when it calls next()
authorize(roles, user) ==
  IF user = NoUser THEN 401
  ELSE IF ~Includes(roles, user.role) THEN 403
  ELSE 0

\* what becomes of an ApiError thrown inside the catch block of the async
\* middleware: the promise Express was handed rejects, which Express 4
\* ignores (the request is never answered: status 0) and Express 5 passes to
\* the error handler
RejectedMiddleware == { 0, 401 }

\* routes: the ones registered before router.use(authenticate) (analytics
\* /track, /public/stats) and the ones behind authenticate and
\* authorize(['admin']) (admin /dashboard, analytics /metrics)
Routes == { "public", "admin" }

NewRequest == [pc |-> "new", route |-> "public", header |-> NoHeader,
               userId |-> Undefined, user |-> NoUser, status |-> 0]

\* a request arrives and is routed to the first middleware of its route
HttpRequest(r, header, route) ==
  /\ http[r].pc = "new"
  /\ \A q \in Requests : q < r => http[q].pc # "new"
  /\ http' = [http EXCEPT ![r] =
       [@ EXCEPT !.pc = IF route = "admin" THEN "authenticate" ELSE "controller",
                 !.route = route, !.header = header]]
  /\ UNCHANGED registryVars

\* authenticate up to the awaited User.findById
authenticate(r, rejected) ==
  /\ http[r].pc = "authenticate"
  /\ LET token == IF http[r].header = NoHeader THEN << >>
                  ELSE Replace(http[r].header, S_Bearer, << >>)
         decoded == JwtVerify(token)
     IN  http' = [http EXCEPT ![r] =
           IF token = << >>
           THEN [@ EXCEPT !.pc = "done", !.status = 401]
           ELSE IF decoded.kind = "JsonWebTokenError"
           THEN [@ EXCEPT !.pc = IF rejected = 0 THEN "unanswered" ELSE "done",
                          !.status = rejected]
           ELSE [@ EXCEPT !.pc = "findById", !.userId = decoded.userId]]
  /\ UNCHANGED registryVars

\* User.findById settles: req.user is set and next() is called, or the error
\* goes to next(error)
authenticateDone(r, kind) ==
  /\ http[r].pc = "findById"
  /\ \E res \in FindById(http[r].userId) :
       /\ res.kind = kind
       /\ http' = [http EXCEPT ![r] =
            IF kind = "user" THEN [@ EXCEPT !.pc = "authorize", !.user = res.user]
            ELSE IF kind = "null" THEN [@ EXCEPT !.pc = "done", !.status = 401]
            ELSE [@ EXCEPT !.pc = "done", !.status = 500]]
  /\ UNCHANGED registryVars

\* router.use(authorize(['admin'])): a thrown ApiError is answered by the
\* error handler with its status
HttpAuthorize(r) ==
  /\ http[r].pc = "authorize"
  /\ LET thrown == authorize(RouteRoles, http[r].user)
     IN  http' = [http EXCEPT ![r] =
           IF thrown = 0 THEN [@ EXCEPT !.pc = "controller"]
           ELSE [@ EXCEPT !.pc = "done", !.status = thrown]]
  /\ UNCHANGED registryVars

\* the rest of the chain and the controller answer the request
HttpController(r) ==
  /\ http[r].pc = "controller"
  /\ http' = [http EXCEPT ![r] = [@ EXCEPT !.pc = "done", !.status = 200]]
  /\ UNCHANGED registryVars

\* ------------------------------------- SecurityMiddleware.blockSuspiciousIPs
\* requests of one client IP that may be in the middleware at the same time
MaxInFlight == 2
IpRequests == 1..MaxInFlight

\* the clock counts hours, up to MaxClock
ClockUnit == 3600
MaxClock == 2

\* `attempts > 50`, expire(attemptKey, 3600) and setex(..., 86400, ...)
AttemptLimit == 50
ExpireSeconds == 3600
BlockSeconds == 86400
AttemptsTtl == ExpireSeconds \div ClockUnit
BlockedTtl == BlockSeconds \div ClockUnit

\* the counter is followed up to here
MaxAttempts == AttemptLimit + 2

\* a Redis key that does not exist; `since` is the hour of the INCR that
\* created the key
AbsentKey == [val |-> 0, hasExpiry |-> FALSE, exp |-> 0, since |-> 0]
NotBlocked == [set |-> FALSE, exp |-> 0]

\* a request: the handler's position, its local `attempts`, the response
\* status and code, calls of next(); age is the age of the counter key, in
\* hours, when this request incremented it, and redisError tells that one of
\* its Redis calls rejected
NewIpRequest ==
  [pc |-> "idle", attempts |-> 0, status |-> 0, code |-> "none",
   nextCalls |-> 0, age |-> 0, redisError |-> FALSE]

\* next()
IpNext(r) == [r EXCEPT !.pc = "done", !.nextCalls = @ + 1]

\* the catch block: log, then next()
IpCatch(r) == [IpNext(r) EXCEPT !.redisError = TRUE]

\* return res.status(403).json({ ..., code })
IpDeny(r, code) == [r EXCEPT !.pc = "done", !.status = 403, !.code = code]

\* the code after the expire: `if (attempts > 50)` leads to the setex, else next()
IpAfterExpire(r) ==
  IF r.attempts > AttemptLimit THEN [r EXCEPT !.pc = "setex"] ELSE IpNext(r)

\* INCR: creates the key with value 1 and no expiry, or adds one and keeps
\* the expiry the key has
RedisIncr(key, t) ==
  IF key.val = 0 THEN [val |-> 1, hasExpiry |-> FALSE, exp |-> 0, since |-> t]
  ELSE [key EXCEPT !.val = @ + 1]

\* EXPIRE key seconds: sets the expiry of an existing key
RedisExpire(key, t) ==
  IF key.val = 0 THEN key
  ELSE [key EXCEPT !.hasExpiry = TRUE, !.exp = t + AttemptsTtl]

\* a request arrives and the handler starts, up to the awaited get
blockSuspiciousIPs(q) ==
  /\ ipReq[q].pc \in {"idle", "done"}
  /\ ipReq' = [ipReq EXCEPT ![q] = [NewIpRequest EXCEPT !.pc = "get"]]
  /\ UNCHANGED << clock, blockedKey, attemptKey, nonIpVars >>

\* get blocked_ip:{ip} settles: rejected (ok = FALSE), blocked, or on to incr
blockSuspiciousIPsGet(q, ok) ==
  /\ ipReq[q].pc = "get"
  /\ ipReq' = [ipReq EXCEPT ![q] =
                 IF ~ok THEN IpCatch(@)
                 ELSE IF blockedKey.set THEN IpDeny(@, "IP_BLOCKED")
                 ELSE [@ EXCEPT !.pc = "incr"]]
  /\ UNCHANGED << clock, blockedKey, attemptKey, nonIpVars >>

\* incr suspicious_attempts:{ip} settles
blockSuspiciousIPsIncr(q, ok) ==
  /\ ipReq[q].pc = "incr"
  /\ ok => attemptKey.val < MaxAttempts
  /\ attemptKey' = IF ok THEN RedisIncr(attemptKey, clock) ELSE attemptKey
  /\ ipReq' = [ipReq EXCEPT ![q] =
                 IF ~ok THEN IpCatch(@)
                 ELSE LET r == [@ EXCEPT !.attempts = attemptKey'.val,
                                        !.age = clock - attemptKey'.since]
                      IN  IF r.attempts = 1 THEN [r EXCEPT !.pc = "expire"]
                          ELSE IpAfterExpire(r)]
  /\ UNCHANGED << clock, blockedKey, nonIpVars >>

\* expire(attemptKey, 3600) settles
blockSuspiciousIPsExpire(q, ok) ==
  /\ ipReq[q].pc = "expire"
  /\ attemptKey' = IF ok THEN RedisExpire(attemptKey, clock) ELSE attemptKey
  /\ ipReq' = [ipReq EXCEPT ![q] = IF ~ok THEN IpCatch(@) ELSE IpAfterExpire(@)]
  /\ UNCHANGED << clock, blockedKey, nonIpVars >>

\* setex(blocked_ip:{ip}, 86400, 'auto_blocked') settles
blockSuspiciousIPsSetex(q, ok) ==
  /\ ipReq[q].pc = "setex"
  /\ blockedKey' = IF ok THEN [set |-> TRUE, exp |-> clock + BlockedTtl]
                   ELSE blockedKey
  /\ ipReq' = [ipReq EXCEPT ![q] =
                 IF ~ok THEN IpCatch(@) ELSE IpDeny(@, "IP_AUTO_BLOCKED")]
  /\ UNCHANGED << clock, attemptKey, nonIpVars >>

\* an hour passes and Redis deletes the keys whose expiry is reached; the
\* four round trips of a request take far less than an hour, so no request
\* is in the middle of the handler meanwhile
RedisHourPasses ==
  /\ clock < MaxClock
  /\ \A q \in IpRequests : ipReq[q].pc \in {"idle", "done"}
  /\ clock' = clock + 1
  /\ attemptKey' = IF attemptKey.hasExpiry /\ attemptKey.exp <= clock'
                   THEN AbsentKey ELSE attemptKey
  /\ blockedKey' = IF blockedKey.set /\ blockedKey.exp <= clock'
                   THEN NotBlocked ELSE blockedKey
  /\ UNCHANGED << ipReq, nonIpVars >>

\* ------------------------------------------------------------ specification
Init ==
  /\ status = [c \in Conns |-> "new"]
  /\ sock = [c \in Conns |-> [userId |-> Undefined, userRole |-> RoleUndefined,
                              isAuthenticated |-> FALSE]]
  /\ connectedUsers = << >>
  /\ userSessions = << >>
  /\ rooms = [r \in AllRooms |-> {}]
  /\ pendingAuth = [c \in Conns |-> {}]
  /\ connPc = [c \in Conns |-> "idle"]
  /\ discPc = [c \in Conns |-> "idle"]
  /\ now = 0
  /\ lastEmit = NoEmit
  /\ failedAuth = {}
  /\ tickPending = 0
  /\ broadcasts = << >>
  /\ running = TRUE
  /\ http = [r \in Requests |-> NewRequest]
  /\ notificationIo = "null"
  /\ lastTrack = NoTrack
  /\ clock = 0
  /\ blockedKey = NotBlocked
  /\ attemptKey = AbsentKey
  /\ ipReq = [q \in IpRequests |-> NewIpRequest]

Next ==
  \/ \E c \in Conns, hs \in Handshakes : Connect(c, hs)
  \/ \E c \in Conns, ok \in BOOLEAN, stored \in BOOLEAN : ConnectTail(c, ok, stored)
  \/ \E c \in Conns, data \in AuthPayloads : Authenticate(c, data)
  \/ \E c \in Conns, t \in Tokens, lateJoin \in BOOLEAN :
       \E res \in VerifyToken(t) : AuthenticateDone(c, t, res, lateJoin)
  \/ \E c \in Conns, room \in RoomNames : JoinRoom(c, room)
  \/ \E c \in Conns, room \in RoomNames : LeaveRoom(c, room)
  \/ \E c \in Conns : AdminDashboardSubscribe(c)
  \/ \E c \in Conns, stored \in BOOLEAN : UserActivity(c, stored)
  \/ \E c \in Conns : Disconnect(c)
  \/ \E c \in Conns, ok \in BOOLEAN, stored \in BOOLEAN : DisconnectTail(c, ok, stored)
  \/ \E userId \in UserIds : sendNotificationToUser(userId)

Spec == Init /\ [][Next]_vars

\* the registry together with the snapshot timer and the server's shutdown
ServerNext ==
  \/ Next
  \/ broadcastRealTimeData
  \/ \E res \in MetricsResults : broadcastRealTimeDataDone(res)
  \/ shutdown
  \/ \E c \in Conns, data \in BadRoomPayloads : JoinRoom(c, data)
  \/ \E c \in Conns, data \in BadRoomPayloads : LeaveRoom(c, data)
  \/ \E c \in Conns, data \in ProjectViewPayloads, stored \in BOOLEAN :
       ProjectView(c, data, stored)
  \/ \E recipients \in RecipientLists, channels \in ChannelLists, stored \in BOOLEAN :
       sendNotification(recipients, channels, stored)

ServerSpec == Init /\ [][ServerNext]_vars

\* the registry when handleDisconnection is also run on handles that are not
\* live
DisconnectNext ==
  \/ Next
  \/ \E c \in Conns, ok \in BOOLEAN : handleDisconnection(c, ok)

DisconnectSpec == Init /\ [][DisconnectNext]_vars

\* the HTTP side: requests to the admin routes going through the chain
HttpNext ==
  \/ \E r \in Requests, header \in Headers, route \in Routes :
       HttpRequest(r, header, route)
  \/ \E r \in Requests, rejected \in RejectedMiddleware : authenticate(r, rejected)
  \/ \E r \in Requests, kind \in FindByIdKinds : authenticateDone(r, kind)
  \/ \E r \in Requests : HttpAuthorize(r)
  \/ \E r \in Requests : HttpController(r)

HttpSpec == Init /\ [][HttpNext]_vars

\* the IP blocking middleware under the requests of one client IP
BlockNext ==
  \/ \E q \in IpRequests : blockSuspiciousIPs(q)
  \/ \E q \in IpRequests, ok \in BOOLEAN : blockSuspiciousIPsGet(q, ok)
  \/ \E q \in IpRequests, ok \in BOOLEAN : blockSuspiciousIPsIncr(q, ok)
  \/ \E q \in IpRequests, ok \in BOOLEAN : blockSuspiciousIPsExpire(q, ok)
  \/ \E q \in IpRequests, ok \in BOOLEAN : blockSuspiciousIPsSetex(q, ok)
  \/ RedisHourPasses

IpSpec == Init /\ [][BlockNext]_vars

\* ================================================================== claims
\* a handle that is in the connection table and whose disconnect handling has
\* not begun
Registered(c) == MapHas(connectedUsers, c) /\ discPc[c] = "idle"

\* the registered connections whose record is authenticated as userId
AuthenticatedAs(userId) ==
  { c \in Conns : /\ Registered(c)
                  /\ connectedUsers[c].isAuthenticated
                  /\ connectedUsers[c].userId = userId }

\* the session-index set of a user id, empty when the id is no key
SessionSet(userId) == IF MapHas(userSessions, userId) THEN userSessions[userId] ELSE {}

\* the role of the account with this id
RoleOf(userId) == (CHOOSE u \in Users : u.id = userId).role

\* C1: for a connection none of whose authenticate events is still awaiting
\* the verifier when its transport closes, disconnect handling leaves the
\* handle in no room and in no user's set of userSessions, and once
\* handleDisconnection has completed the handle is not in connectedUsers,
\* whether it authenticated at handshake or by the authenticate event and
\* however many times.
C1_DisconnectRemovesHandle ==
  [][\A c \in Conns :
       /\ (status[c] = "open" /\ status'[c] = "closed" /\ pendingAuth[c] = {}) =>
            /\ \A r \in AllRooms : c \notin rooms'[r]
            /\ \A u \in DOMAIN userSessions' : c \notin userSessions'[u]
       /\ (discPc[c] # "done" /\ discPc'[c] = "done") =>
            ~MapHas(connectedUsers', c)]_vars

\* C2: a user id is a key of userSessions exactly when some registered
\* connection is authenticated as that user id, and no key maps to the empty
\* set.
C2_SessionIndexIffAuthenticated ==
  /\ \A u \in UserIds : MapHas(userSessions, u) <=> AuthenticatedAs(u) # {}
  /\ \A u \in DOMAIN userSessions : userSessions[u] # {}

\* the authorization table of the specification: admin_*, admins and
\* admin_dashboard need the admin role; user:{id} needs the caller's own id
\* or the admin role; public_* is open; everything else is denied
AuthorizationTable(s, room) ==
  IF StartsWith(room, S_admin_) \/ room = S_admins \/ room = S_admin_dashboard
  THEN s.userRole = "admin"
  ELSE IF StartsWith(room, S_user)
       THEN s.userId = SubSeq(room, Len(S_user) + 1, Len(room)) \/ s.userRole = "admin"
  ELSE StartsWith(room, S_public_)

\* C3: a join_room request is granted exactly when the authorization table
\* allows the room for the caller's identity and role.
C3_JoinGrantedIffTable ==
  lastEmit.event \in {"room_joined", "room_join_error"} =>
    (lastEmit.event = "room_joined"
       <=> AuthorizationTable(sock[lastEmit.conn], lastEmit.arg))

\* C4: after an authenticate event whose token the verifier accepts, the
\* socket carries the verified user id and role and is marked authenticated;
\* for a connection that is still open when the verifier answers, its record
\* in connectedUsers is marked authenticated with that user id and role, and
\* the handle is a member of room user:{id}, and of room admins when the role
\* is admin.
C4_AuthSuccessMarksAndJoins ==
  lastEmit.event = "authentication_success" =>
    LET c == lastEmit.conn
        id == lastEmit.arg
    IN  /\ sock[c] = [userId |-> id, userRole |-> RoleOf(id), isAuthenticated |-> TRUE]
        /\ status[c] = "open" =>
             /\ MapHas(connectedUsers, c)
             /\ connectedUsers[c].isAuthenticated
             /\ connectedUsers[c].userId = id
             /\ connectedUsers[c].role = RoleOf(id)
             /\ c \in rooms[UserRoom(id)]
             /\ RoleOf(id) = "admin" => c \in rooms[S_admins]

\* C4 witness: an open, registered connection that connected anonymously has
\* just been authenticated as the admin account by the authenticate event
C4_Witness ==
  /\ lastEmit.event = "authentication_success"
  /\ lastEmit.arg = A1
  /\ status[lastEmit.conn] = "open"
  /\ Registered(lastEmit.conn)
  /\ connectedUsers[lastEmit.conn].role = "admin"
  /\ lastEmit.conn \in rooms[S_admins]

\* a step in which an authenticate event of connection c fails: the verifier
\* rejects the token or throws, or the event carries no payload
C5_AuthFails(c) ==
  \/ \E t \in Tokens : \E res \in VerifyToken(t) :
       res.kind # "user" /\ AuthenticateDone(c, t, res, TRUE)
  \/ Authenticate(c, NoPayload)

\* C5: a failed authenticate event is answered with authentication_error and
\* changes nothing: the connection stays as it was (registered, its socket's
\* and record's user id, role and authenticated flag as before), and the
\* session index and every room's member set are unchanged.
C5_FailedAuthChangesNothing ==
  [][\A c \in Conns :
       C5_AuthFails(c) =>
         /\ lastEmit'.event = "authentication_error" /\ lastEmit'.conn = c
         /\ status' = status
         /\ sock' = sock
         /\ connectedUsers' = connectedUsers
         /\ userSessions' = userSessions
         /\ rooms' = rooms]_vars

\* C5 witness: a connection that was answered authentication_error while
\* anonymous authenticates later on with a valid token and succeeds
C5_Witness ==
  /\ lastEmit.event = "authentication_success"
  /\ lastEmit.conn \in failedAuth
  /\ Registered(lastEmit.conn)
  /\ connectedUsers[lastEmit.conn].isAuthenticated
  /\ SessionSet(lastEmit.arg) = {}

\* C6: whenever two registered connections are authenticated as the same user
\* id, both handles are in that user's set of userSessions and
\* getUserConnections(userId) is the number of registered connections
\* authenticated as that user.
C6_SameUserBothIndexed ==
  \A u \in UserIds :
    Cardinality(AuthenticatedAs(u)) >= 2 =>
      /\ AuthenticatedAs(u) \subseteq SessionSet(u)
      /\ getUserConnections(u) = Cardinality(AuthenticatedAs(u))

\* C7: sendNotificationToUser(userId) delivers the notification to every
\* connection indexed under userId in userSessions and to no handle that is
\* not in the connection table.
C7_NotificationReachesIndexed ==
  lastEmit.event = "notification" =>
    /\ SessionSet(lastEmit.arg) \subseteq lastEmit.to
    /\ lastEmit.to \subseteq DOMAIN connectedUsers

\* C8: a handle is in at most one user's set of userSessions, and a successful
\* authenticate event that changes the user id of an authenticated, registered
\* connection moves the handle from the old user's set to the new user's set.
C8_ReauthReplacesIdentity ==
  /\ [](\A u, v \in DOMAIN userSessions :
          u # v => userSessions[u] \cap userSessions[v] = {})
  /\ [][\A c \in Conns :
          ( /\ lastEmit'.event = "authentication_success" /\ lastEmit'.conn = c
            /\ MapHas(connectedUsers, c) /\ MapHas(connectedUsers', c)
            /\ connectedUsers[c].isAuthenticated
            /\ connectedUsers[c].userId # connectedUsers'[c].userId
            /\ pendingAuth'[c] # pendingAuth[c] ) =>
          /\ c \in IF MapHas(userSessions', connectedUsers'[c].userId)
                   THEN userSessions'[connectedUsers'[c].userId] ELSE {}
          /\ c \notin IF MapHas(userSessions', connectedUsers[c].userId)
                      THEN userSessions'[connectedUsers[c].userId] ELSE {}]_vars

\* C9: a join_room answered with room_join_error leaves every room's member
\* set as it was, and the caller is not a member of the room it asked for.
C9_DeniedJoinLeavesRooms ==
  [][lastEmit'.event = "room_join_error" =>
       /\ rooms' = rooms
       /\ lastEmit'.conn \notin rooms'[lastEmit'.arg]]_vars

\* C10: once disconnect handling has removed a handle from connectedUsers, no
\* later step adds the handle to a room, to a set of userSessions or to
\* connectedUsers.
C10_RemovalIsFinal ==
  [][\A c \in Conns :
       (status[c] = "closed" /\ ~MapHas(connectedUsers, c)) =>
         /\ ~MapHas(connectedUsers', c)
         /\ \A r \in AllRooms : c \in rooms'[r] => c \in rooms[r]
         /\ \A u \in DOMAIN userSessions' :
              c \in userSessions'[u] => (MapHas(userSessions, u) /\ c \in userSessions[u])]_vars

\* the rooms only an admin may join
AdminOnlyRooms == { r \in RoomNames : StartsWith(r, S_admin_) }

\* C11: events of one connection take effect in the order received: when the
\* verifier accepts the admin token of an authenticate event, the connection
\* has not just been refused an admin-only join_room or an
\* admin_dashboard_subscribe that it sent after that authenticate event (the
\* refusal is lastEmit, so it followed the Authenticate step, which emits
\* nothing).
C11_JoinAfterAuthenticateGranted ==
  [][\A c \in Conns :
       ( /\ "tok_a1" \in pendingAuth[c]
         /\ lastEmit'.event = "authentication_success"
         /\ lastEmit'.conn = c
         /\ lastEmit'.arg = A1
         /\ lastEmit.conn = c ) =>
         /\ lastEmit.event # "subscription_error"
         /\ ~(lastEmit.event = "room_join_error" /\ lastEmit.arg \in AdminOnlyRooms)]_vars

\* every connection accepted so far has been unregistered: its transport is
\* closed and handleDisconnection has run to its end
AllUnregistered ==
  /\ \E c \in Conns : status[c] = "closed"
  /\ \A c \in Conns : status[c] = "new" \/ (status[c] = "closed" /\ discPc[c] = "done")

\* C12: once every accepted connection has been unregistered, in whatever
\* order the connection and disconnection handlers interleaved, connectedUsers
\* is empty, and a snapshot broadcast made in that state reports 0 as
\* active_users_count and 0 as activeConnections.
C12_AllUnregisteredTableEmpty ==
  AllUnregistered =>
    /\ connectedUsers = << >>
    /\ \A i \in 1..Len(broadcasts) :
         /\ broadcasts[i].event = "active_users_count" => broadcasts[i].count = 0
         /\ broadcasts[i].event = "dashboard_update" => broadcasts[i].arg[1] = 0

\* C12 witness: both connections were registered and unregistered, one of
\* them while its handleConnection was still suspended, and the snapshot made
\* afterwards reported a count of 0 to nobody
C12_Witness ==
  /\ \A c \in Conns : status[c] = "closed" /\ discPc[c] = "done"
  /\ \E c \in Conns : connPc[c] = "tail"
  /\ lastEmit.event = "active_users_count"
  /\ lastEmit.count = 0
  /\ lastEmit.to = {}

\* C13: every accepted connection is registered, and when its
\* handleConnection ends the connection has been sent connection_established
\* carrying its handle and the current size of connectedUsers, whatever the
\* outcome of the Redis write and of the analytics call.
C13_EveryConnectionAcknowledged ==
  [][\A c \in Conns :
       /\ (status[c] = "new" /\ status'[c] = "open") => MapHas(connectedUsers', c)
       /\ (connPc[c] = "tail" /\ connPc'[c] = "done") =>
            /\ lastEmit'.event = "connection_established"
            /\ lastEmit'.conn = c
            /\ lastEmit'.count = Cardinality(DOMAIN connectedUsers')]_vars

\* the first part of a snapshot run emitted dashboard_update, with the three
\* counts of the connection table, to the members of admin_dashboard
DashboardUpdateSent ==
  /\ Len(broadcasts') >= 1
  /\ broadcasts'[1].event = "dashboard_update"
  /\ broadcasts'[1].to = { c \in rooms[S_admin_dashboard] : status[c] = "open" }
  /\ broadcasts'[1].arg =
       << Cardinality(DOMAIN connectedUsers),
          Cardinality({ c \in DOMAIN connectedUsers : connectedUsers[c].isAuthenticated }),
          Cardinality({ c \in DOMAIN connectedUsers : connectedUsers[c].role = "admin" }) >>

\* the step emitted real_time_analytics to the members of admins
AnalyticsSent ==
  \E i \in 1..Len(broadcasts') :
    /\ broadcasts'[i].event = "real_time_analytics"
    /\ broadcasts'[i].to = { c \in rooms[S_admins] : status[c] = "open" }

\* the step emitted active_users_count, the size of the connection table, to
\* every connection
ActiveUsersCountSent ==
  \E i \in 1..Len(broadcasts') :
    /\ broadcasts'[i].event = "active_users_count"
    /\ broadcasts'[i].to = { c \in Conns : status[c] = "open" }
    /\ broadcasts'[i].count = Cardinality(DOMAIN connectedUsers)

\* C14: each run of broadcastRealTimeData emits dashboard_update with the
\* counts {total, authenticated, admin} to the members of admin_dashboard
\* when it starts, and real_time_analytics to the members of admins and
\* active_users_count to every connection when it ends.
C14_EveryRunEmitsAllThree ==
  [][/\ tickPending' > tickPending => DashboardUpdateSent
     /\ tickPending' < tickPending => (AnalyticsSent /\ ActiveUsersCountSent)]_vars

\* a step in which the getRealTimeMetrics call of a snapshot run fails or is
\* given up as never returning
C15_MetricsFail ==
  broadcastRealTimeDataDone("throw") \/ broadcastRealTimeDataDone("hang")

\* C15: a snapshot run whose getRealTimeMetrics call fails or never returns
\* has emitted dashboard_update and still emits active_users_count to every
\* connection; only real_time_analytics is left out.
C15_FailedFetchKeepsOtherBroadcasts ==
  [][/\ tickPending' > tickPending => DashboardUpdateSent
     /\ C15_MetricsFail => ActiveUsersCountSent]_vars

\* every run of the snapshot emits dashboard_update when it starts
DashboardUpdateEveryRun == [][tickPending' > tickPending => DashboardUpdateSent]_vars

\* C16: once PortfolioServer.shutdown() has completed, no run of
\* broadcastRealTimeData starts any more.
C16_NoTickAfterShutdown ==
  [][~running => tickPending' <= tickPending]_vars

\* C17: a request to an admin route whose token authenticate accepted as a
\* user of role admin passes authorize(['admin']) and is answered by the
\* controller with status 200.
C17_AdminReachesController ==
  \A r \in Requests :
    ( /\ http[r].route = "admin"
      /\ http[r].pc = "done"
      /\ http[r].user # NoUser
      /\ http[r].user.role = "admin" ) => http[r].status = 200

\* C18: sendNotification for a notification whose channels include the socket
\* channel emits, whether or not the notification could be stored, a
\* notification event to room user:{id} for every recipient id, reaching the
\* open members of that room.
C18_SocketChannelDispatches ==
  [][\A recipients \in RecipientLists, channels \in ChannelLists, stored \in BOOLEAN :
       ( /\ \E i \in 1..Len(channels) : channels[i] = "socket"
         /\ sendNotification(recipients, channels, stored) ) =>
         \A j \in 1..Len(recipients) :
           \E i \in 1..Len(broadcasts') :
             /\ broadcasts'[i].event = "notification"
             /\ broadcasts'[i].arg = recipients[j]
             /\ broadcasts'[i].to =
                  { c \in rooms[UserRoom(recipients[j])] : status[c] = "open" }]_vars

\* C19: admin_dashboard_subscribe from a connection whose role is admin makes
\* it a member of admin_dashboard and sends it one dashboard_data snapshot and
\* nothing else; from any other connection it is answered subscription_error,
\* sends no snapshot and leaves every room, admin_dashboard included, as it
\* was.
C19_SubscribeAdminOnly ==
  [][\A c \in Conns :
       AdminDashboardSubscribe(c) =>
         /\ MapHas(connectedUsers, c)
         /\ broadcasts' = << >>
         /\ lastEmit'.conn = c
         /\ lastEmit'.to = {c}
         /\ IF connectedUsers[c].role = "admin"
            THEN /\ rooms'[S_admin_dashboard] = rooms[S_admin_dashboard] \cup {c}
                 /\ lastEmit'.event = "dashboard_data"
                 /\ lastEmit'.count = Cardinality(DOMAIN connectedUsers)
            ELSE /\ lastEmit'.event = "subscription_error"
                 /\ rooms' = rooms]_vars

\* C19 witness: of two open connections, the admin one has just subscribed:
\* it alone is a member of admin_dashboard and it alone was sent the snapshot
C19_Witness ==
  /\ lastEmit.event = "dashboard_data"
  /\ lastEmit.to = {lastEmit.conn}
  /\ rooms[S_admin_dashboard] = {lastEmit.conn}
  /\ connectedUsers[lastEmit.conn].role = "admin"
  /\ \E d \in Conns : d # lastEmit.conn /\ status[d] = "open"

\* C20: no step that handles an inbound event (authenticate, join_room,
\* leave_room, admin_dashboard_subscribe, user_activity, project_view),
\* whatever its payload, ends in an uncaught exception or an unhandled
\* rejection.
C20_NoInboundEventThrows ==
  [][(now' # now \/ pendingAuth' # pendingAuth) =>
       lastEmit'.event \notin { "uncaughtException", "unhandledRejection" }]_vars

\* a run of handleDisconnection for a handle that is not in connectedUsers
C21_RunOnMissing(c) ==
  ~MapHas(connectedUsers, c) /\ \E ok \in BOOLEAN : handleDisconnection(c, ok)

\* handleDisconnection run for a handle that is not in connectedUsers leaves
\* connectedUsers, userSessions and every room as they were, so a second run
\* leaves the state of the first
MissingHandleNoOp ==
  [][\A c \in Conns :
       C21_RunOnMissing(c) =>
         /\ connectedUsers' = connectedUsers
         /\ userSessions' = userSessions
         /\ rooms' = rooms]_vars

SinkFailureSwallowed ==
  [][\A c \in Conns :
       /\ ConnectTail(c, TRUE, FALSE) =>
            (lastEmit'.event = "connection_established" /\ lastEmit'.conn = c)
       /\ (\E ok \in BOOLEAN : DisconnectTail(c, ok, FALSE)) =>
            ~MapHas(connectedUsers', c)
       /\ UserActivity(c, FALSE) => lastEmit'.event # "unhandledRejection"]_vars

\* C23: when trackEvent fails during register, unregister or user_activity
\* the failure is swallowed: register still acknowledges the connection it
\* inserted, user_activity raises nothing, and unregister still removes the
\* handle from connectedUsers and from every set of userSessions.
C23_SinkFailureNeverBlocks ==
  [][\A c \in Conns :
       /\ ConnectTail(c, TRUE, FALSE) =>
            (lastEmit'.event = "connection_established" /\ lastEmit'.conn = c)
       /\ UserActivity(c, FALSE) => lastEmit'.event # "unhandledRejection"
       /\ (\E ok \in BOOLEAN : DisconnectTail(c, ok, FALSE)) =>
            /\ ~MapHas(connectedUsers', c)
            /\ \A u \in DOMAIN userSessions' : c \notin userSessions'[u]]_vars

\* the rooms reserved to admins: admins and every admin_* room
PrivilegedRooms == { r \in AllRooms : r = S_admins \/ StartsWith(r, S_admin_) }

\* C24: in every reachable state every member of a privileged room (admins,
\* admin_dashboard, any admin_* room) is a registered connection whose
\* current role is admin, also after an admin connection re-authenticated
\* with the token of a non-admin user.
C24_PrivilegedRoomsHoldAdminsOnly ==
  \A r \in PrivilegedRooms : \A c \in rooms[r] :
     /\ MapHas(connectedUsers, c)
     /\ connectedUsers[c].role = "admin"
     /\ sock[c].userRole = "admin"

\* C25: a connection whose current role is not admin is a member of room
\* user:{id} only if {id} is its own current user id, so a notification
\* addressed to user X reaches no unauthenticated connection and no non-admin
\* connection currently authenticated as another user, also after a
\* re-authentication under a different user id.
C25_UserRoomIsolation ==
  /\ \A c \in Conns, id \in UserIds :
       (sock[c].userRole # "admin" /\ c \in rooms[UserRoom(id)]) =>
          sock[c].userId = id
  /\ lastEmit.event = "notification" =>
       \A c \in lastEmit.to :
          sock[c].userRole = "admin" \/ sock[c].userId = lastEmit.arg

\* C26: every registered connection whose authenticated flag is true is a
\* member of room user:{its own user id}; no join_room / leave_room of that
\* connection takes it out of that room while it stays authenticated.
C26_AuthenticatedInOwnUserRoom ==
  \A c \in Conns :
     (Registered(c) /\ connectedUsers[c].isAuthenticated) =>
        c \in rooms[UserRoom(connectedUsers[c].userId)]

\* C27: every dashboard snapshot satisfies adminConnections <=
\* authenticatedUsers <= activeConnections, with activeConnections the size of
\* connectedUsers when it is computed; no record of connectedUsers carries
\* role admin while its isAuthenticated flag is false.
C27_SnapshotCountsOrdered ==
  /\ \A c \in DOMAIN connectedUsers :
       connectedUsers[c].role = "admin" => connectedUsers[c].isAuthenticated
  /\ LET d == getDashboardData(connectedUsers)
     IN  d[3] <= d[2] /\ d[2] <= d[1] /\ d[1] = Cardinality(DOMAIN connectedUsers)
  /\ lastEmit.event = "dashboard_update" =>
       /\ lastEmit.arg[3] <= lastEmit.arg[2]
       /\ lastEmit.arg[2] <= lastEmit.arg[1]
       /\ lastEmit.arg[1] = Cardinality(DOMAIN connectedUsers)

\* a snapshot is broadcast while the table holds an admin that authenticated
\* by the authenticate event and an anonymous connection
C27_Witness ==
  /\ lastEmit.event = "dashboard_update"
  /\ lastEmit.arg = << 2, 1, 1 >>
  /\ userSessions = << >>
  /\ \A c \in Conns : status[c] = "open"

\* a Redis call of request q rejects at this step
IpRedisError(q) ==
  \/ blockSuspiciousIPsGet(q, FALSE)
  \/ blockSuspiciousIPsIncr(q, FALSE)
  \/ blockSuspiciousIPsExpire(q, FALSE)
  \/ blockSuspiciousIPsSetex(q, FALSE)

\* C28: a request that finds the blocked flag set is answered 403 and does
\* not increment the attempts counter; a request that raises the counter
\* above 50 within the counter's one-hour window sets the blocked flag for
\* 24 h and is answered 403; every other request, and every request during a
\* Redis error, is passed on with next() called exactly once.
C28_BlockedOrPassedOn ==
  [][\A q \in IpRequests :
       /\ (blockSuspiciousIPsGet(q, TRUE) /\ blockedKey.set) =>
            /\ ipReq'[q].pc = "done" /\ ipReq'[q].status = 403
            /\ ipReq'[q].nextCalls = 0
            /\ attemptKey' = attemptKey
       /\ (blockSuspiciousIPsIncr(q, TRUE) /\ attemptKey'.val > AttemptLimit
              /\ clock - attemptKey'.since < AttemptsTtl) =>
            ipReq'[q].pc = "setex"
       /\ blockSuspiciousIPsSetex(q, TRUE) =>
            /\ blockedKey' = [set |-> TRUE, exp |-> clock + BlockedTtl]
            /\ ipReq'[q].pc = "done" /\ ipReq'[q].status = 403
            /\ ipReq'[q].nextCalls = 0
       /\ IpRedisError(q) =>
            /\ ipReq'[q].pc = "done" /\ ipReq'[q].status = 0
            /\ ipReq'[q].nextCalls = 1
       /\ (ipReq[q].pc # "done" /\ ipReq'[q].pc = "done") =>
            IF \/ ipReq'[q].code = "IP_BLOCKED"
               \/ /\ ~ipReq'[q].redisError
                  /\ ipReq'[q].attempts > AttemptLimit
                  /\ ipReq'[q].age < AttemptsTtl
            THEN ipReq'[q].status = 403 /\ ipReq'[q].nextCalls = 0
            ELSE ipReq'[q].status = 0 /\ ipReq'[q].nextCalls = 1]_vars

\* every request ends with a 403 and no next(), or with exactly one next();
\* a Redis error always ends in next()
IpAnsweredOnce ==
  [][\A q \in IpRequests :
       /\ IpRedisError(q) =>
            (ipReq'[q].pc = "done" /\ ipReq'[q].status = 0 /\ ipReq'[q].nextCalls = 1)
       /\ (ipReq[q].pc # "done" /\ ipReq'[q].pc = "done") =>
            \/ ipReq'[q].status = 403 /\ ipReq'[q].nextCalls = 0
            \/ ipReq'[q].status = 0 /\ ipReq'[q].nextCalls = 1]_vars

\* C29: whenever the suspicious_attempts key exists it has an expiry, at most
\* one hour after its first increment, also under concurrent requests and
\* when the expire call after the first increment fails.  Stated for the
\* states in which no request is between its incr and its expire, where the
\* key has no expiry yet in any case.
C29_CounterAlwaysExpires ==
  (attemptKey.val > 0 /\ \A q \in IpRequests : ipReq[q].pc # "expire") =>
     (attemptKey.hasExpiry /\ attemptKey.exp <= attemptKey.since + AttemptsTtl)

\* C30: the authenticate middleware completes every request in one of two
\* ways: next() with req.user set to the existing user of a valid token, or
\* next(error) with a 401 ApiError (missing, malformed or expired token,
\* token of a deleted user); it never rejects without having called next.
C30_AuthenticateCallsNext ==
  [][\A r \in Requests :
       ((\E rejected \in RejectedMiddleware : authenticate(r, rejected))
          \/ (\E kind \in FindByIdKinds : authenticateDone(r, kind))) =>
         \/ http'[r].pc = "findById"
         \/ /\ http'[r].pc = "authorize"
            /\ http'[r].user \in Users
            /\ http'[r].user.id = http'[r].userId
         \/ http'[r].pc = "done" /\ http'[r].status = 401]_vars

====
